---- MODULE Spec2Model ----
(***************************************************************************)
(* Weather Q&A backend (qna_backend/api): the heuristic extractor, the     *)
(* simulated forecast client, the answer engine and the chat views.        *)
(*                                                                         *)
(* A Python str is a sequence of one-character strings, so that regular    *)
(* expressions, strip(), lower() and title() are computed character by     *)
(* character as the interpreter computes them.                             *)
(***************************************************************************)
EXTENDS Integers, Sequences, FiniteSets, TLC

VARIABLES
    text,           \* extractor: the input text
    extraction,     \* extractor: None or the returned <<location, when>>
    hashSalt,       \* the per-process secret that keys Python's str hash
    run,            \* index of the current interpreter process
    calls,          \* get_forecast calls so far: [run, location, when, forecast]
    env,            \* environment: OPENAI_API_KEY set, ChatOpenAI importable
    question,       \* engine: the question handed to answer()
    engine,         \* engine: [status, use_llm] of the WeatherQnAEngine() call
    answerOut,      \* engine: None or <<[reply, text]>> of the answer() call
    llmCalls,       \* number of backend invocations so far
    users,          \* auth_user table: sequence of [username, password], id = index
    sessions,       \* client -> logged-in user id, 0 when anonymous
    conversations,  \* Conversation table: sequence of [user, title], id = index
    messages,       \* Message table in created_at order: [conversation, role, content]
    response        \* the response to the last request

vars == <<text, extraction, hashSalt, run, calls, env, question, engine, answerOut,
          llmCalls, users, sessions, conversations, messages, response>>

\* an absent value: results are kept as sequences, empty until produced
None == << >>

Min(a, b) == IF a <= b THEN a ELSE b
Max(a, b) == IF a >= b THEN a ELSE b

(***************************************************************************)
(* Characters and the str methods the program uses.                        *)
(***************************************************************************)
Lowers == <<"a", "b", "c", "d", "e", "f", "g", "h", "i", "j", "k", "l", "m",
            "n", "o", "p", "q", "r", "s", "t", "u", "v", "w", "x", "y", "z">>
Uppers == <<"A", "B", "C", "D", "E", "F", "G", "H", "I", "J", "K", "L", "M",
            "N", "O", "P", "Q", "R", "S", "T", "U", "V", "W", "X", "Y", "Z">>
Digits == <<"0", "1", "2", "3", "4", "5", "6", "7", "8", "9">>

IndexIn(c, seq) ==
    IF \E i \in 1..Len(seq) : seq[i] = c
        THEN CHOOSE i \in 1..Len(seq) : seq[i] = c
        ELSE 0

\* the case mappings of the ASCII letters
LowerOf == [c \in {Uppers[i] : i \in 1..Len(Uppers)} |-> Lowers[IndexIn(c, Uppers)]]
UpperOf == [c \in {Lowers[i] : i \in 1..Len(Lowers)} |-> Uppers[IndexIn(c, Lowers)]]
DigitSet == {Digits[i] : i \in 1..Len(Digits)}

IsLower(c) == c \in DOMAIN UpperOf
IsUpper(c) == c \in DOMAIN LowerOf
IsAlpha(c) == IsLower(c) \/ IsUpper(c)
IsDigit(c) == c \in DigitSet
\* \s of the re module
IsSpace(c) == c \in {" ", "\t", "\n", "\r", "\f"}
\* \w of the re module; \b is a change of IsWord between neighbours
IsWord(c)  == IsAlpha(c) \/ IsDigit(c) \/ c = "_"

ToLower(c) == IF IsUpper(c) THEN LowerOf[c] ELSE c
ToUpper(c) == IF IsLower(c) THEN UpperOf[c] ELSE c

\* str.lower()
Lower(s) == [i \in 1..Len(s) |-> ToLower(s[i])]

\* str.strip()
Strip(s) ==
    LET keep == {i \in 1..Len(s) : ~IsSpace(s[i])}
    IN  IF keep = {} THEN << >>
        ELSE LET first == CHOOSE i \in keep : \A j \in keep : i <= j
                 last  == CHOOSE i \in keep : \A j \in keep : j <= i
             IN  SubSeq(s, first, last)

\* str.title(): a cased character is upper-cased after an uncased one (or at
\* the start) and lower-cased after a cased one
Title(s) ==
    [i \in 1..Len(s) |->
        IF IsAlpha(s[i])
            THEN IF i > 1 /\ IsAlpha(s[i - 1]) THEN ToLower(s[i]) ELSE ToUpper(s[i])
            ELSE s[i]]

\* s[:n]
Prefix(s, n) == SubSeq(s, 1, Min(n, Len(s)))

StartsWith(s, p) == Len(p) <= Len(s) /\ SubSeq(s, 1, Len(p)) = p

\* \b before position i / after position j, next to a word character
BoundaryBefore(s, i) == i = 1 \/ ~IsWord(s[i - 1])
BoundaryAfter(s, j)  == j = Len(s) \/ ~IsWord(s[j + 1])

\* end of the run of characters in the set of positions ok that starts at i
RunEnd(s, i, ok) ==
    LET stops == {j \in i..Len(s) : j \notin ok}
    IN  IF stops = {} THEN Len(s) + 1 ELSE CHOOSE j \in stops : \A k \in stops : j <= k

\* \s+ from position i: the length of the whitespace run
SpaceRun(s, i) == Max(0, RunEnd(s, i, {j \in 1..Len(s) : IsSpace(s[j])}) - i)

\* str(n) for a natural number
RECURSIVE NatToStr(_)
NatToStr(n) ==
    IF n < 10 THEN <<Digits[n + 1]>>
    ELSE NatToStr(n \div 10) \o <<Digits[(n % 10) + 1]>>

(***************************************************************************)
(* services.py: extract_location_and_when                                  *)
(***************************************************************************)
YourArea == <<"y", "o", "u", "r", " ", "a", "r", "e", "a">>
Today    == <<"t", "o", "d", "a", "y">>
Tomorrow == <<"t", "o", "m", "o", "r", "r", "o", "w">>
Tonight  == <<"t", "o", "n", "i", "g", "h", "t">>
ThisWeekend == <<"t", "h", "i", "s", " ", "w", "e", "e", "k", "e", "n", "d">>
ThisWeek == <<"t", "h", "i", "s", " ", "w", "e", "e", "k">>
NextWeek == <<"n", "e", "x", "t", " ", "w", "e", "e", "k">>

time_keywords == <<Today, Tomorrow, Tonight, ThisWeekend, ThisWeek, NextWeek>>

\* [A-Za-z\s\-]
IsLocChar(c) == IsAlpha(c) \/ IsSpace(c) \/ c = "-"

LocRepeatMax == 40

\* [A-Za-z\s\-]* from position i: the length of the run
LocCharRun(s, i) == Max(0, RunEnd(s, i, {j \in 1..Len(s) : IsLocChar(s[j])}) - i)

\* (?:in|at)\s+([A-Za-z][A-Za-z\s\-]{1,40}) with re.IGNORECASE matches at i.
\* \s+ is greedy and the next atom is a letter, so it takes the whole run.
LocGroupStart(t, i) == i + 2 + SpaceRun(t, i + 2)

LocMatchAt(t, i) ==
    /\ i + 1 <= Len(t)
    /\ Lower(SubSeq(t, i, i + 1)) \in {<<"i", "n">>, <<"a", "t">>}
    /\ SpaceRun(t, i + 2) >= 1
    /\ LocGroupStart(t, i) <= Len(t)
    /\ IsAlpha(t[LocGroupStart(t, i)])
    /\ LocCharRun(t, LocGroupStart(t, i) + 1) >= 1

\* group(1) of the match at i: the letter and the greedy repeat
LocGroup(t, i) ==
    LET g == LocGroupStart(t, i)
    IN  SubSeq(t, g, g + Min(LocRepeatMax, LocCharRun(t, g + 1)))

\* re.search returns the leftmost match
loc_match(t) ==
    LET hits == {i \in 1..Len(t) : LocMatchAt(t, i)}
    IN  IF hits = {} THEN 0 ELSE CHOOSE i \in hits : \A j \in hits : i <= j

\* re.search(rf"\b{re.escape(kw)}\b", text, re.IGNORECASE); kw is lower case
KeywordFound(t, kw) ==
    LET lowered == Lower(t)
    IN  \E i \in 1..Len(t) :
            /\ i + Len(kw) - 1 <= Len(t)
            /\ BoundaryBefore(t, i)
            /\ BoundaryAfter(t, i + Len(kw) - 1)
            /\ SubSeq(lowered, i, i + Len(kw) - 1) = kw

\* the for loop over time_keywords: the first keyword found wins
KeywordWhen(t) ==
    LET found == {k \in 1..Len(time_keywords) : KeywordFound(t, time_keywords[k])}
    IN  IF found = {} THEN Today
        ELSE time_keywords[CHOOSE k \in found : \A j \in found : k <= j]

DateLen == 10

\* \b(20\d{2}-\d{2}-\d{2})\b matches at i (no IGNORECASE)
DateMatchAt(t, i) ==
    /\ i + DateLen - 1 <= Len(t)
    /\ t[i] = "2" /\ t[i + 1] = "0"
    /\ IsDigit(t[i + 2]) /\ IsDigit(t[i + 3])
    /\ t[i + 4] = "-"
    /\ IsDigit(t[i + 5]) /\ IsDigit(t[i + 6])
    /\ t[i + 7] = "-"
    /\ IsDigit(t[i + 8]) /\ IsDigit(t[i + 9])
    /\ BoundaryBefore(t, i)
    /\ BoundaryAfter(t, i + DateLen - 1)

date_match(t) ==
    LET hits == {i \in 1..Len(t) : DateMatchAt(t, i)}
    IN  IF hits = {} THEN 0 ELSE CHOOSE i \in hits : \A j \in hits : i <= j

\* variant: the ISO date is used only when no keyword was found
extract_keyword_first(t) ==
    LET loc      == loc_match(t)
        date     == date_match(t)
        keyword  == KeywordWhen(t)
        location == IF loc > 0 THEN Strip(LocGroup(t, loc)) ELSE YourArea
        when     == IF date > 0 /\ keyword = Today
                        THEN SubSeq(t, date, date + DateLen - 1)
                        ELSE keyword
    IN  <<location, when>>

extract_location_and_when(t) ==
    LET loc      == loc_match(t)
        date     == date_match(t)
        location == IF loc > 0 THEN Strip(LocGroup(t, loc)) ELSE YourArea
        when     == IF date > 0 THEN SubSeq(t, date, date + DateLen - 1)
                    ELSE KeywordWhen(t)
    IN  <<location, when>>

(***************************************************************************)
(* services.py: MCPWeatherClient.get_forecast                              *)
(***************************************************************************)
conditions == <<
    <<"s", "u", "n", "n", "y">>,
    <<"p", "a", "r", "t", "l", "y", " ", "c", "l", "o", "u", "d", "y">>,
    <<"o", "v", "e", "r", "c", "a", "s", "t">>,
    <<"l", "i", "g", "h", "t", " ", "r", "a", "i", "n">>,
    <<"s", "c", "a", "t", "t", "e", "r", "e", "d", " ", "s", "h", "o", "w", "e", "r", "s">>,
    <<"t", "h", "u", "n", "d", "e", "r", "s", "t", "o", "r", "m", "s">>,
    <<"b", "r", "e", "e", "z", "y">>,
    <<"h", "u", "m", "i", "d">>,
    <<"d", "r", "y">>,
    <<"d", "r", "i", "z", "z", "l", "e">> >>

advices == <<
    <<"C", "a", "r", "r", "y", " ", "a", " ", "l", "i", "g", "h", "t", " ", "j", "a", "c", "k", "e", "t", ".">>,
    <<"S", "u", "n", "s", "c", "r", "e", "e", "n", " ", "r", "e", "c", "o", "m", "m", "e", "n", "d", "e", "d", ".">>,
    <<"P", "a", "c", "k", " ", "a", "n", " ", "u", "m", "b", "r", "e", "l", "l", "a", " ", "j", "u", "s", "t", " ", "i", "n", " ", "c", "a", "s", "e", ".">>,
    <<"H", "y", "d", "r", "a", "t", "e", " ", "w", "e", "l", "l", ".">>,
    <<"G", "o", "o", "d", " ", "d", "a", "y", " ", "f", "o", "r", " ", "a", " ", "w", "a", "l", "k", ".">> >>

\* The interpreter's integers are unbounded and the program reduces the hash
\* modulo 2**32; the model checker's integers are 32 bits wide, so the model
\* keeps 16 bits of the hash and of the seed.
HashModulus == 2^16
SeedModulus == 2^16

\* ordinal of a character
CharCode(c) ==
    IF IsLower(c) THEN IndexIn(c, Lowers)
    ELSE IF IsUpper(c) THEN 26 + IndexIn(c, Uppers)
    ELSE IF IsDigit(c) THEN 52 + IndexIn(c, Digits)
    ELSE IF c = " " THEN 63
    ELSE IF c = "-" THEN 64
    ELSE 65

\* hash(str): a function of the characters keyed by the process's secret.
\* The interpreter draws the secret at start-up (PYTHONHASHSEED unset), so the
\* value is stable within a process and differs between processes.
RECURSIVE StrPoly(_)
StrPoly(s) ==
    IF s = << >> THEN 7
    ELSE (31 * StrPoly(SubSeq(s, 1, Len(s) - 1)) + CharCode(s[Len(s)])) % HashModulus

StrHash(salt, s) == (StrPoly(s) + salt) % HashModulus

\* hash((a, b)): combines the hashes of the items; the result is signed
TupleHash(salt, a, b) ==
    ((4 * StrHash(salt, a) + StrHash(salt, b)) % HashModulus) - (HashModulus \div 2)

\* random.Random(seed): the k-th bounded draw of the generator is a function
\* of the seed alone.  The draws of the four calls are taken from successive
\* mixed-radix digits of the seed, so that every tuple of draws is the stream
\* of some seed.
Stride(k) == <<1, 21, 168, 1680>>[k]
RandBelow(seed, k, n) == (seed \div Stride(k)) % n
\* rng.randint(a, b), the k-th draw
randint(seed, k, a, b) == a + RandBelow(seed, k, b - a + 1)
\* rng.choice(seq), the k-th draw
choice(seed, k, seq) == seq[1 + RandBelow(seed, k, Len(seq))]

Seed(salt, location, when) ==
    TupleHash(salt, Strip(Lower(location)), Strip(Lower(when))) % SeedModulus

Highs(seed) == randint(seed, 1, 15, 35)

\* variant: the low temperature without the floor of 5
LowsUnclamped(seed) == Highs(seed) - randint(seed, 2, 5, 12)

Lows(seed) == Max(5, Highs(seed) - randint(seed, 2, 5, 12))

Temperature(highs, lows) ==
    <<"H", "i", "g", "h", " ">> \o NatToStr(highs)
        \o <<"°", "C", " ", "/", " ", "L", "o", "w", " ">> \o NatToStr(lows)
        \o <<"°", "C">>

get_forecast(salt, location, when) ==
    LET seed == Seed(salt, location, when)
    IN  [location    |-> Title(location),
         when        |-> when,
         summary     |-> choice(seed, 3, conditions),
         temperature |-> Temperature(Highs(seed), Lows(seed)),
         advice      |-> choice(seed, 4, advices)]

(***************************************************************************)
(* services.py: WeatherQnAEngine                                           *)
(***************************************************************************)
\* __init__: use_llm of the engine built in environment e
use_llm(e) == e.api_key /\ e.ChatOpenAI

base_answer(forecast) ==
    <<"W", "e", "a", "t", "h", "e", "r", " ", "f", "o", "r", "e", "c", "a", "s", "t", " ", "f", "o", "r", " ">>
        \o forecast.location \o <<" ", "(">> \o forecast.when \o <<")", ":", " ">>
        \o forecast.summary
        \o <<".", " ", "T", "e", "m", "p", "e", "r", "a", "t", "u", "r", "e", "s", " ", "a", "r", "o", "u", "n", "d", " ">>
        \o forecast.temperature \o <<".", " ">> \o forecast.advice

\* the base answer answer() builds for a question in a process keyed by salt
Base(salt, q) ==
    LET lw == extract_location_and_when(q)
    IN  base_answer(get_forecast(salt, lw[1], lw[2]))

\* What self.llm.invoke does: it raises, or returns an object whose content
\* is a str (possibly empty or blank) or something else (None, a list).
LLMTexts == {
    <<"S", "u", "n", "n", "y", ".">>,
    <<" ", "R", "a", "i", "n", ".", "\n">>,
    << >>,
    <<" ", "\n">> }

LLMReplies ==
    {[kind |-> "raise", content |-> << >>], [kind |-> "object", content |-> << >>]}
        \cup {[kind |-> "str", content |-> c] : c \in LLMTexts}

\* answer(): the text returned when the engine was built
answer(salt, use, q, reply) ==
    IF ~use THEN Base(salt, q)
    ELSE IF reply.kind = "str" /\ Strip(reply.content) # << >>
        THEN Strip(reply.content)
    ELSE Base(salt, q)

\* WeatherQnAEngine().answer(q): ChatOpenAI(...) is called in __init__ outside
\* any try, so an exception it raises reaches the caller
EngineAnswer(salt, e, q, ctor, reply) ==
    IF use_llm(e) /\ ctor = "raise"
        THEN [status |-> "raised", text |-> << >>, invoked |-> 0]
        ELSE [status |-> "returned",
              text |-> answer(salt, use_llm(e), q, reply),
              invoked |-> IF use_llm(e) THEN 1 ELSE 0]

(***************************************************************************)
(* Inputs and bounds                                                       *)
(***************************************************************************)
MaxTokens == 3
MaxRuns == 2
MaxCalls == 2
NumForecastSalts == 168
NumRunSalts == 3
NumEngineSalts == 3

QParisTomorrow == <<"W", "h", "a", "t", "'", "s", " ", "t", "h", "e", " ", "w", "e", "a", "t", "h", "e", "r", " ", "i", "n", " ", "P", "a", "r", "i", "s", " ", "t", "o", "m", "o", "r", "r", "o", "w", "?">>
QFollowUp == <<"H", "o", "w", " ", "a", "b", "o", "u", "t", " ", "o", "n", " ", "2", "0", "2", "5", "-", "0", "9", "-", "0", "1", " ", "i", "n", " ", "t", "h", "e", " ", "s", "a", "m", "e", " ", "c", "i", "t", "y", "?">>
QWeather == <<"W", "h", "a", "t", "'", "s", " ", "t", "h", "e", " ", "w", "e", "a", "t", "h", "e", "r", "?">>
QWhatIs == <<"W", "h", "a", "t", " ", "i", "s", " ", "t", "h", "e", " ", "w", "e", "a", "t", "h", "e", "r">>
TParisTomorrow == <<"w", "e", "a", "t", "h", "e", "r", " ", "i", "n", " ", "P", "a", "r", "i", "s", " ", "t", "o", "m", "o", "r", "r", "o", "w">>
TParisOnDate == <<"w", "e", "a", "t", "h", "e", "r", " ", "i", "n", " ", "P", "a", "r", "i", "s", " ", "o", "n", " ", "2", "0", "2", "5", "-", "0", "9", "-", "0", "1">>
Paris == <<"P", "a", "r", "i", "s">>
IsoDate == <<"2", "0", "2", "5", "-", "0", "9", "-", "0", "1">>
OldDate == <<"1", "9", "9", "9", "-", "1", "2", "-", "3", "1">>

NamedTexts == {QParisTomorrow, QFollowUp, QWeather, QWhatIs, TParisTomorrow, TParisOnDate}

Tokens == {
    <<" ">>, <<"i", "n">>, <<"A", "t">>, <<"W", "h", "a", "t">>, Paris,
    <<"t", "o", "m", "o", "r", "r", "o", "w">>, <<"T", "o", "d", "a", "y">>,
    <<"t", "h", "i", "s", " ", "w", "e", "e", "k">>, <<"e", "n", "d">>,
    IsoDate, OldDate, <<"1">>, <<"-">>, <<"?">> }

\* the concatenations of at most n tokens
RECURSIVE TokenTexts(_)
TokenTexts(n) ==
    IF n = 0 THEN {<< >>}
    ELSE LET shorter == TokenTexts(n - 1)
         IN  shorter \cup {t \o k : t \in shorter, k \in Tokens}

Texts == NamedTexts \cup TokenTexts(MaxTokens)

Locations == {Paris, <<" ", "N", "e", "w", " ", "Y", "O", "R", "K", " ">>, YourArea}
Whens == {Today, <<"T", "o", "m", "o", "r", "r", "o", "w">>, IsoDate}

NoReply == [kind |-> "none", content |-> << >>]
NoEngine == [status |-> "none", use_llm |-> FALSE]

Environments == [api_key : BOOLEAN, ChatOpenAI : BOOLEAN]
Questions == {QParisTomorrow, QFollowUp, QWeather, QWhatIs}

NoResponse == [op |-> "none", client |-> "", user |-> 0, status |-> 0,
               conversation_id |-> -1, question |-> << >>, answer |-> << >>,
               detail |-> "", body |-> << >>]

InitExtractVars == text = << >> /\ extraction = None
InitForecastVars == hashSalt = 0 /\ run = 1 /\ calls = {}
InitEngineVars ==
    /\ env = [api_key |-> FALSE, ChatOpenAI |-> FALSE]
    /\ question = << >> /\ engine = NoEngine /\ answerOut = None /\ llmCalls = 0
InitViewVars ==
    /\ users = << >> /\ sessions = << >>
    /\ conversations = << >> /\ messages = << >>
    /\ response = NoResponse

extractVars == <<text, extraction>>
forecastVars == <<hashSalt, run, calls>>
engineVars == <<env, question, engine, answerOut, llmCalls>>
viewVars == <<users, sessions, conversations, messages, response>>

(***************************************************************************)
(* The extractor applied to a text                                         *)
(***************************************************************************)
InitExtract ==
    /\ text \in Texts
    /\ extraction = None
    /\ InitForecastVars /\ InitEngineVars /\ InitViewVars

Extract ==
    /\ extraction = None
    /\ extraction' = extract_location_and_when(text)
    /\ UNCHANGED <<text, forecastVars, engineVars, viewVars>>

NextExtract == Extract

SpecExtract == InitExtract /\ [][NextExtract]_vars

(***************************************************************************)
(* The forecast client called in one process, and in successive processes  *)
(***************************************************************************)
Call(location, when) ==
    /\ Cardinality(calls) < MaxCalls
    /\ calls' = calls \cup {[run |-> run, location |-> location, when |-> when,
                            forecast |-> get_forecast(hashSalt, location, when)]}
    /\ UNCHANGED <<hashSalt, run, extractVars, engineVars, viewVars>>

\* the process ends and a new interpreter starts with a fresh hash secret
Restart(salt) ==
    /\ run < MaxRuns
    /\ run' = run + 1
    /\ hashSalt' = salt
    /\ UNCHANGED <<calls, extractVars, engineVars, viewVars>>

InitForecast ==
    /\ hashSalt \in 0..(NumForecastSalts - 1)
    /\ run = 1 /\ calls = {}
    /\ InitExtractVars /\ InitEngineVars /\ InitViewVars

NextForecast == \E l \in Locations, w \in Whens : Call(l, w)

SpecForecast == InitForecast /\ [][NextForecast]_vars

InitRuns ==
    /\ hashSalt \in 0..(NumRunSalts - 1)
    /\ run = 1 /\ calls = {}
    /\ InitExtractVars /\ InitEngineVars /\ InitViewVars

NextRuns ==
    \/ \E l \in {Paris, YourArea}, w \in {Today, IsoDate} : Call(l, w)
    \/ \E salt \in 0..(NumRunSalts - 1) : Restart(salt)

SpecRuns == InitRuns /\ [][NextRuns]_vars

(***************************************************************************)
(* The engine: construction, then answer                                   *)
(***************************************************************************)
InitEngine ==
    /\ env \in Environments
    /\ question \in Questions
    /\ hashSalt \in 0..(NumEngineSalts - 1)
    /\ engine = NoEngine /\ answerOut = None /\ llmCalls = 0
    /\ run = 1 /\ calls = {}
    /\ InitExtractVars /\ InitViewVars

\* WeatherQnAEngine(): ctor is what ChatOpenAI(...) does when it is called
NewEngine(ctor) ==
    /\ engine.status = "none"
    /\ engine' = IF use_llm(env) /\ ctor = "raise"
                     THEN [status |-> "raised", use_llm |-> TRUE]
                     ELSE [status |-> "built", use_llm |-> use_llm(env)]
    /\ UNCHANGED <<env, question, answerOut, llmCalls, extractVars, forecastVars, viewVars>>

\* engine.answer(question): reply is what self.llm.invoke does
Answer(reply) ==
    /\ engine.status = "built"
    /\ answerOut = None
    /\ answerOut' = <<[reply |-> IF engine.use_llm THEN reply ELSE NoReply,
                       text |-> answer(hashSalt, engine.use_llm, question, reply)]>>
    /\ llmCalls' = IF engine.use_llm THEN llmCalls + 1 ELSE llmCalls
    /\ UNCHANGED <<env, question, engine, extractVars, forecastVars, viewVars>>

NextEngine ==
    \/ \E ctor \in {"ok", "raise"} : NewEngine(ctor)
    \/ \E reply \in LLMReplies : Answer(reply)

SpecEngine == InitEngine /\ [][NextEngine]_vars

(***************************************************************************)
(* views.py: the chat endpoints.  A request is handled to completion before*)
(* the next one; every statement that writes a row commits on its own      *)
(* (the ORM's autocommit), so rows written before an exception stay.       *)
(***************************************************************************)
MaxConversations == 2
MaxMessages == 4

Clients == {"c1"}
Usernames == {"alice", "bob"}
Passwords == {"secret123"}
\* passwords tried at login
LoginPasswords == Passwords \cup {"wrong"}
AskQuestions == {QParisTomorrow}
\* what the backend does in the chat flow: it raises, or returns a text
ViewReplies == {r \in LLMReplies : r.kind = "raise" \/ r.content = <<"S", "u", "n", "n", "y", ".">>}
\* the hash secret of the server process
ViewSalts == {0}
ViewEnvironments == {e \in Environments : e.ChatOpenAI}
\* what ChatOpenAI(...) and llm.invoke can do in environment e: neither is
\* called without use_llm, and invoke is not reached when the constructor raises
Backends(e) ==
    IF ~use_llm(e) THEN {<<"ok", NoReply>>}
    ELSE {<<"raise", NoReply>>} \cup {<<"ok", r>> : r \in ViewReplies}
\* conversation_id of an ask body: Omitted, or an integer
Omitted == -1
ConversationIds == 0..(MaxConversations + 1)

HTTP_200_OK == 200
HTTP_201_CREATED == 201
HTTP_400_BAD_REQUEST == 400
HTTP_401_UNAUTHORIZED == 401
HTTP_404_NOT_FOUND == 404
HTTP_500_INTERNAL_SERVER_ERROR == 500

TitleMax == 50

\* request.user of a client's session: a user id, 0 for AnonymousUser
RequestUser(c) == sessions[c]

\* User.objects.filter(username=username)
UserIdOf(username) ==
    IF \E i \in 1..Len(users) : users[i].username = username
        THEN CHOOSE i \in 1..Len(users) : users[i].username = username
        ELSE 0

\* Conversation.objects.get(id=id, user=user) finds a row
Owns(user, id) ==
    /\ id \in 1..Len(conversations)
    /\ conversations[id].user = user

\* conversation.messages: the rows of a conversation in created_at order
RECURSIVE MessagesOf(_, _)
MessagesOf(msgs, id) ==
    IF msgs = << >> THEN << >>
    ELSE LET rest == MessagesOf(SubSeq(msgs, 1, Len(msgs) - 1), id)
             last == msgs[Len(msgs)]
         IN  IF last.conversation = id
                 THEN Append(rest, [role |-> last.role, content |-> last.content])
                 ELSE rest

\* ConversationSerializer(conv).data
SerializeConversation(convs, msgs, id) ==
    [id |-> id, title |-> convs[id].title, messages |-> MessagesOf(msgs, id)]

\* ConversationSerializer(qs, many=True).data for the rows of a user ordered
\* by -updated_at; updated_at is set when the row is created and never after
RECURSIVE SerializeOwned(_, _, _, _)
SerializeOwned(convs, msgs, user, n) ==
    IF n = 0 THEN << >>
    ELSE IF convs[n].user = user
        THEN <<SerializeConversation(convs, msgs, n)>> \o SerializeOwned(convs, msgs, user, n - 1)
        ELSE SerializeOwned(convs, msgs, user, n - 1)

Reply(op, c, status) ==
    [op |-> op, client |-> c, user |-> RequestUser(c), status |-> status,
     conversation_id |-> Omitted, question |-> << >>, answer |-> << >>,
     detail |-> "", body |-> << >>]

\* variant: the answer is stored before the question
AskMessagesAnswerFirst(id, q, a) ==
    <<[conversation |-> id, role |-> "assistant", content |-> a],
      [conversation |-> id, role |-> "user", content |-> q]>>

\* the two Message.objects.create calls of ask
AskMessages(id, q, a) ==
    <<[conversation |-> id, role |-> "user", content |-> q],
      [conversation |-> id, role |-> "assistant", content |-> a]>>

register(c, username, password) ==
    /\ IF UserIdOf(username) # 0
          THEN /\ response' = [Reply("register", c, HTTP_400_BAD_REQUEST)
                                  EXCEPT !.detail = "Username already exists"]
               /\ UNCHANGED users
          ELSE /\ users' = Append(users, [username |-> username, password |-> password])
               /\ response' = Reply("register", c, HTTP_201_CREATED)
    /\ UNCHANGED <<sessions, conversations, messages>>
    /\ UNCHANGED <<extractVars, forecastVars, engineVars>>

login(c, username, password) ==
    /\ IF UserIdOf(username) # 0 /\ users[UserIdOf(username)].password = password
          THEN /\ sessions' = [sessions EXCEPT ![c] = UserIdOf(username)]
               /\ response' = [Reply("login", c, HTTP_200_OK)
                                  EXCEPT !.user = UserIdOf(username)]
          ELSE /\ response' = [Reply("login", c, HTTP_401_UNAUTHORIZED)
                                  EXCEPT !.detail = "Invalid credentials"]
               /\ UNCHANGED sessions
    /\ UNCHANGED <<users, conversations, messages>>
    /\ UNCHANGED <<extractVars, forecastVars, engineVars>>

logout(c) ==
    /\ sessions' = [sessions EXCEPT ![c] = 0]
    /\ response' = Reply("logout", c, HTTP_200_OK)
    /\ UNCHANGED <<users, conversations, messages>>
    /\ UNCHANGED <<extractVars, forecastVars, engineVars>>

\* ask: conv_id is the body's conversation_id; ctor and reply are what
\* ChatOpenAI(...) and llm.invoke do when the engine reaches them
ask(c, q, conv_id, ctor, reply) ==
    LET user    == RequestUser(c)
        given   == conv_id # Omitted /\ conv_id # 0      \* if conv_id:
        id      == IF given THEN conv_id ELSE Len(conversations) + 1
        convs2  == IF given THEN conversations
                   ELSE Append(conversations, [user |-> user, title |-> Prefix(q, TitleMax)])
        out     == EngineAnswer(hashSalt, env, q, ctor, reply)
        request == [Reply("ask", c, 0) EXCEPT !.conversation_id = conv_id, !.question = q]
    IN  /\ Len(messages) + 2 <= MaxMessages
        /\ given \/ Len(conversations) < MaxConversations
        /\ IF user = 0
              THEN /\ response' = [request EXCEPT !.status = HTTP_401_UNAUTHORIZED,
                                                  !.detail = "Authentication required"]
                   /\ UNCHANGED <<conversations, messages, llmCalls>>
           ELSE IF given /\ ~Owns(user, conv_id)
              THEN /\ response' = [request EXCEPT !.status = HTTP_404_NOT_FOUND,
                                                  !.detail = "Conversation not found"]
                   /\ UNCHANGED <<conversations, messages, llmCalls>>
           ELSE IF out.status = "raised"
              THEN /\ conversations' = convs2
                   /\ messages' = Append(messages, AskMessages(id, q, << >>)[1])
                   /\ llmCalls' = llmCalls
                   /\ response' = [request EXCEPT !.status = HTTP_500_INTERNAL_SERVER_ERROR]
           ELSE /\ conversations' = convs2
                /\ messages' = messages \o AskMessages(id, q, out.text)
                /\ llmCalls' = llmCalls + out.invoked
                /\ response' = [request EXCEPT
                                   !.status = IF given THEN HTTP_200_OK ELSE HTTP_201_CREATED,
                                   !.body = <<[conversation_id |-> id]>>,
                                   !.answer = out.text]
        /\ UNCHANGED <<users, sessions>>
        /\ UNCHANGED <<extractVars, forecastVars, env, question, engine, answerOut>>

list_conversations(c) ==
    /\ IF RequestUser(c) = 0
          THEN response' = [Reply("conversations", c, HTTP_401_UNAUTHORIZED)
                               EXCEPT !.detail = "Authentication required"]
          ELSE response' = [Reply("conversations", c, HTTP_200_OK)
                               EXCEPT !.body = SerializeOwned(conversations, messages,
                                                              RequestUser(c), Len(conversations))]
    /\ UNCHANGED <<users, sessions, conversations, messages>>
    /\ UNCHANGED <<extractVars, forecastVars, engineVars>>

conversation_detail(c, conversation_id) ==
    /\ IF RequestUser(c) = 0
          THEN response' = [Reply("conversation_detail", c, HTTP_401_UNAUTHORIZED)
                               EXCEPT !.conversation_id = conversation_id,
                                      !.detail = "Authentication required"]
       ELSE IF ~Owns(RequestUser(c), conversation_id)
          THEN response' = [Reply("conversation_detail", c, HTTP_404_NOT_FOUND)
                               EXCEPT !.conversation_id = conversation_id,
                                      !.detail = "Conversation not found"]
          ELSE response' = [Reply("conversation_detail", c, HTTP_200_OK)
                               EXCEPT !.conversation_id = conversation_id,
                                      !.body = <<SerializeConversation(conversations, messages,
                                                                       conversation_id)>>]
    /\ UNCHANGED <<users, sessions, conversations, messages>>
    /\ UNCHANGED <<extractVars, forecastVars, engineVars>>

Init ==
    /\ users = << >>
    /\ sessions = [c \in Clients |-> 0]
    /\ conversations = << >>
    /\ messages = << >>
    /\ response = NoResponse
    /\ env \in ViewEnvironments
    /\ hashSalt \in ViewSalts
    /\ run = 1 /\ calls = {}
    /\ question = << >> /\ engine = NoEngine /\ answerOut = None /\ llmCalls = 0
    /\ InitExtractVars

Next ==
    \/ \E c \in Clients, u \in Usernames, p \in Passwords : register(c, u, p)
    \/ \E c \in Clients, u \in Usernames, p \in LoginPasswords : login(c, u, p)
    \/ \E c \in Clients : logout(c)
    \/ \E c \in Clients, q \in AskQuestions, id \in {Omitted} \cup ConversationIds,
          b \in Backends(env) : ask(c, q, id, b[1], b[2])
    \/ \E c \in Clients : list_conversations(c)
    \/ \E c \in Clients, id \in ConversationIds : conversation_detail(c, id)

Spec == Init /\ [][Next]_vars

(***************************************************************************)
(* Properties of the forecast client                                       *)
(***************************************************************************)
DigitRun(s, i) == Max(0, RunEnd(s, i, {j \in 1..Len(s) : IsDigit(s[j])}) - i)

RECURSIVE StrToNat(_)
StrToNat(s) ==
    IF s = << >> THEN 0
    ELSE 10 * StrToNat(SubSeq(s, 1, Len(s) - 1)) + (IndexIn(s[Len(s)], Digits) - 1)

\* the numbers rendered in "High {highs}°C / Low {lows}°C"
TemperatureHigh(fc) ==
    StrToNat(SubSeq(fc.temperature, 6, 5 + DigitRun(fc.temperature, 6)))

TemperatureLow(fc) ==
    LET j == 6 + DigitRun(fc.temperature, 6) + 9
    IN  StrToNat(SubSeq(fc.temperature, j, j + DigitRun(fc.temperature, j) - 1))

\* C1: every forecast returned by get_forecast renders temperatures with
\* 5 <= Low <= High <= 35.
C1_TemperatureRange ==
    \A c \in calls :
        /\ 5 <= TemperatureLow(c.forecast)
        /\ TemperatureLow(c.forecast) <= TemperatureHigh(c.forecast)
        /\ TemperatureHigh(c.forecast) <= 35

\* a forecast whose low was raised to the floor: high minus the drawn
\* difference is below 5
C1_Witness ==
    \E c \in calls :
        /\ Highs(Seed(hashSalt, c.location, c.when))
               - randint(Seed(hashSalt, c.location, c.when), 2, 5, 12) < 5
        /\ TemperatureLow(c.forecast) = 5
        /\ TemperatureHigh(c.forecast) = 15

\* C2: two get_forecast calls with the identical (location, when) pair return
\* identical forecast records, within one process run and across two runs.
C2_SameInputSameForecast ==
    \A a, b \in calls :
        (a.location = b.location /\ a.when = b.when) => a.forecast = b.forecast

(***************************************************************************)
(* Properties of the engine                                                *)
(***************************************************************************)
\* the backend invocation raised, or returned empty, blank or non-str content
BackendFailed(reply) ==
    \/ reply.kind \in {"raise", "object"}
    \/ reply.kind = "str" /\ Strip(reply.content) = << >>

\* C3: with a backend configured, no error of the LLM path (setting up the
\* client included) reaches the caller, and a failed invocation yields
\* exactly the base answer.
C3_BackendNeverFails ==
    use_llm(env) =>
        /\ engine.status # "raised"
        /\ (answerOut # None /\ BackendFailed(answerOut[1].reply))
               => answerOut[1].text = Base(hashSalt, question)

ForecastForParisTomorrow == <<"W", "e", "a", "t", "h", "e", "r", " ", "f", "o", "r", "e", "c", "a", "s", "t", " ", "f", "o", "r", " ", "P", "a", "r", "i", "s", " ", "(", "t", "o", "m", "o", "r", "r", "o", "w", ")", ":">>

\* C4: without a backend, answer("What's the weather in Paris tomorrow?")
\* invokes no backend and returns the base answer, which starts with
\* "Weather forecast for Paris (tomorrow):".
C4_NoBackendParisTomorrow ==
    (answerOut # None /\ ~use_llm(env) /\ question = QParisTomorrow) =>
        /\ llmCalls = 0
        /\ answerOut[1].text = Base(hashSalt, question)
        /\ StartsWith(answerOut[1].text, ForecastForParisTomorrow)

(***************************************************************************)
(* Properties of the extractor                                             *)
(***************************************************************************)
\* C5: extract_location_and_when("weather in Paris tomorrow") returns
\* ("Paris", "tomorrow").
C5_ParisTomorrow ==
    (extraction # None /\ text = TParisTomorrow) => extraction = <<Paris, Tomorrow>>

\* dddd-dd-dd at position i, every d a digit 0-9
IsoShapeAt(t, i) ==
    /\ i + 9 <= Len(t)
    /\ \A k \in {0, 1, 2, 3, 5, 6, 8, 9} : IsDigit(t[i + k])
    /\ t[i + 4] = "-" /\ t[i + 7] = "-"

\* 20dd-dd-dd at position i with no letter, digit or underscore next to it
DelimitedDateAt(t, i) ==
    /\ IsoShapeAt(t, i)
    /\ SubSeq(t, i, i + 1) = <<"2", "0">>
    /\ (i > 1 => ~IsWord(t[i - 1]))
    /\ (i + 10 <= Len(t) => ~IsWord(t[i + 10]))

\* C6 as stated: a text that contains a substring of the form YYYY-MM-DD
\* yields such a substring as the time reference.
C6_AnyIsoDate ==
    (extraction # None /\ \E i \in 1..Len(text) : IsoShapeAt(text, i)) =>
        \E i \in 1..Len(text) :
            IsoShapeAt(text, i) /\ extraction[2] = SubSeq(text, i, i + 9)

\* C6 (amended): a text that contains a substring 20dd-dd-dd with no word
\* character next to it yields the leftmost such substring as the time
\* reference, also when a time keyword occurs in the text.
C6_DelimitedDateOverrides ==
    (extraction # None /\ \E i \in 1..Len(text) : DelimitedDateAt(text, i)) =>
        \E i \in 1..Len(text) :
            /\ DelimitedDateAt(text, i)
            /\ \A j \in 1..(i - 1) : ~DelimitedDateAt(text, j)
            /\ extraction[2] = SubSeq(text, i, i + 9)

\* a text with both a time keyword and a delimited date, extracted
C6_Witness ==
    /\ extraction # None
    /\ KeywordFound(text, Tomorrow)
    /\ \E i \in 1..Len(text) : DelimitedDateAt(text, i)
    /\ extraction[2] = IsoDate

\* 'in' or 'at' as a whole word, followed by a location character (the
\* character after a whole word is no letter, so it is a space or a hyphen)
HasPrepositionWord(t) ==
    \E i \in 1..Len(t) :
        /\ i + 2 <= Len(t)
        /\ Lower(SubSeq(t, i, i + 1)) \in {<<"i", "n">>, <<"a", "t">>}
        /\ (i > 1 => ~IsWord(t[i - 1]))
        /\ ~IsWord(t[i + 2])
        /\ IsLocChar(t[i + 2])

HasTimeKeyword(t) == \E k \in 1..Len(time_keywords) : KeywordFound(t, time_keywords[k])

\* C7: the location is "your area" when the text has no preposition 'in' or
\* 'at' as a word followed by location characters, the time reference is
\* "today" when it has no time keyword and no ISO date, and
\* "What's the weather?" yields ("your area", "today").
C7_Defaults ==
    extraction # None =>
        /\ ~HasPrepositionWord(text) => extraction[1] = YourArea
        /\ (~HasTimeKeyword(text) /\ ~\E i \in 1..Len(text) : IsoShapeAt(text, i))
               => extraction[2] = Today
        /\ text = QWeather => extraction = <<YourArea, Today>>

(***************************************************************************)
(* Properties of the chat endpoints.  response' is the response of the     *)
(* request the step handles; response'.user is the requester.              *)
(***************************************************************************)
NewMessages == SubSeq(messages', Len(messages) + 1, Len(messages'))

IsolationStep ==
    /\ (response'.op \in {"conversations", "conversation_detail"}
            /\ response'.status = HTTP_200_OK)
           => \A i \in 1..Len(response'.body) :
                  conversations'[response'.body[i].id].user = response'.user
    /\ Len(messages') >= Len(messages)
    /\ SubSeq(messages', 1, Len(messages)) = messages
    /\ \A i \in 1..Len(NewMessages) :
           conversations'[NewMessages[i].conversation].user = response'.user

NotFoundStep ==
    (/\ response'.op \in {"ask", "conversation_detail"}
     /\ response'.user # 0
     /\ response'.conversation_id # Omitted
     /\ ~Owns(response'.user, response'.conversation_id))
        => /\ response'.status = HTTP_404_NOT_FOUND
           /\ response'.detail = "Conversation not found"

\* C8: a request made as user A returns no conversation of another user and
\* appends no message to one; conversation_detail and ask naming a
\* conversation id that is missing or owned by someone else answer 404
\* 'Conversation not found'.
C8_OwnerIsolation == [][IsolationStep /\ NotFoundStep]_vars

\* C9: a successful ask appends exactly the question (role 'user') and then
\* the engine's answer (role 'assistant') to one conversation and leaves the
\* others unchanged; without conversation_id a new conversation of the
\* requester is created and the status is 201; with an owned conversation_id
\* the messages go to that conversation, the response carries its id and the
\* status is 200.
C9_AskAppendsPair ==
    [][(response'.op = "ask" /\ response'.status \in {HTTP_200_OK, HTTP_201_CREATED}) =>
          LET r  == response'
              id == r.body[1].conversation_id
          IN  /\ messages' = messages \o
                     <<[conversation |-> id, role |-> "user", content |-> r.question],
                       [conversation |-> id, role |-> "assistant", content |-> r.answer]>>
              /\ r.answer \in {Base(hashSalt, r.question)}
                                 \cup {Strip(x.content) : x \in ViewReplies}
              /\ SubSeq(conversations', 1, Len(conversations)) = conversations
              /\ Len(conversations') <= Len(conversations) + 1
              /\ r.conversation_id = Omitted =>
                     /\ Len(conversations') = Len(conversations) + 1
                     /\ id = Len(conversations')
                     /\ conversations'[id].user = r.user
                     /\ r.status = HTTP_201_CREATED
              /\ Owns(r.user, r.conversation_id) =>
                     /\ conversations' = conversations
                     /\ id = r.conversation_id
                     /\ r.status = HTTP_200_OK]_vars

\* a follow-up ask answered 200 in the conversation a first ask created
C9_Witness ==
    /\ response.op = "ask" /\ response.status = HTTP_200_OK
    /\ response.conversation_id = 1
    /\ Len(messages) = 4
    /\ \A i \in 1..4 : messages[i].conversation = 1
    /\ messages[3].role = "user" /\ messages[3].content = response.question
    /\ messages[4].role = "assistant" /\ messages[4].content = response.answer

Alternates(m) ==
    /\ Len(m) > 0
    /\ Len(m) % 2 = 0
    /\ \A i \in 1..Len(m) : m[i].role = IF i % 2 = 1 THEN "user" ELSE "assistant"

\* C10: after every ask (accepted, rejected with 401/404, or aborted by an
\* error while the answer is generated) every stored conversation holds a
\* non-empty, even-length message list alternating 'user', 'assistant', and a
\* rejected or failed ask leaves no conversation and no message behind.
C10_QuestionsAnswered ==
    [][/\ \A id \in 1..Len(conversations') : Alternates(MessagesOf(messages', id))
       /\ (response'.op = "ask"
               /\ response'.status \notin {HTTP_200_OK, HTTP_201_CREATED})
              => (conversations' = conversations /\ messages' = messages)]_vars

\* the isolation and not-found parts of C8 for requests that name a non-zero id
IsolationOnly == [][IsolationStep]_vars
NotFoundNonZero == [][response'.conversation_id # 0 => NotFoundStep]_vars

====
